---------------------------- MODULE Spec2Model ----------------------------
(***************************************************************************)
(* Model of the "Quick User Data Explorer" (src/app.py): one press of the  *)
(* "Pull Latest Data" button streams the users collection into a dict,     *)
(* turns it into an anonymized table and renders ten charts, one after the *)
(* other.  A Python exception ends the script run where it is raised.      *)
(*                                                                         *)
(* Python values.  A dict is a TLA+ function whose DOMAIN is its key set   *)
(* (a record when the keys are strings); an absent key is absent from the  *)
(* DOMAIN.  Scalars are strings ("True", "False", "None", a score) or      *)
(* integers (level, creationDate).  A DataFrame is its column set and its  *)
(* rows; a NaN cell is a column missing from the row's DOMAIN.             *)
(***************************************************************************)
EXTENDS Integers, Sequences, FiniteSets, TLC

VARIABLES
    pc,          \* position of the script run
    dev,         \* the module-level dev flag handed to pull_latest_data
    file,        \* user_data.hkl on disk
    fileAtPress, \* history: user_data.hkl as it was when the button was pressed
    stream,      \* the documents users_ref.stream() will yield, in order
    pos,         \* number of documents of the stream read so far
    user_data,   \* the dict built by pull_latest_data, in insertion order
    data,        \* the DataFrame returned by anonymize_to_df
    catalog,     \* the fl_content collection: id -> document
    charts       \* what the run has rendered so far, in order

vars == <<pc, dev, file, fileAtPress, stream, pos, user_data, data, catalog, charts>>

-----------------------------------------------------------------------------
(* Bounds *)

\* documents in the users collection of one pull
MaxStream == 2
\* rows of a user table handed directly to an aggregator
MaxUsers == 2

-----------------------------------------------------------------------------
(* Python helpers *)

None == "None"

\* dict.get(key, default)
get(d, key, default) == IF key \in DOMAIN d THEN d[key] ELSE default

\* bool(v) for the scalars of the model
truthy(v) == v \notin {None, "False"}

\* the dict d without the keys of ks
without(d, ks) == [k \in DOMAIN d \ ks |-> d[k]]

Range(s) == {s[i] : i \in DOMAIN s}

RECURSIVE SumSeq(_)
SumSeq(s) == IF s = <<>> THEN 0 ELSE s[1] + SumSeq(Tail(s))

RECURSIVE Concat(_)
\* itertoolz.concat: the sequences of s, one after the other
Concat(s) == IF s = <<>> THEN <<>> ELSE s[1] \o Concat(Tail(s))

\* the result of a call: a value, or the exception it raised
Ok(v) == [status |-> "ok", value |-> v]
Raise(e) == [status |-> "error", value |-> e]

-----------------------------------------------------------------------------
(* pandas / toolz helpers *)

\* {} : the dict with no key
EmptyDict == [k \in {} |-> None]

\* The order in which a dict of content ids yields its keys.
ContentOrder == <<"r1", "r2", "s1", "s2">>

\* list(d.keys()) for a dict keyed by content ids
keys(d) == SelectSeq(ContentOrder, LAMBDA k : k \in DOMAIN d)

\* list(d.values()), in the order of keys(d)
values(d) == [i \in 1..Len(keys(d)) |-> d[keys(d)[i]]]

\* any(...) over a sequence of scalars
any(s) == \E i \in DOMAIN s : truthy(s[i])

\* A DataFrame cell: NaN when the row's document had no such key.
cell(row, c) == IF c \in DOMAIN row THEN [nan |-> FALSE, v |-> row[c]]
                ELSE [nan |-> TRUE]

\* Series.value_counts(): value -> number of occurrences, the values of na
\* (None / NaN) dropped.
value_counts(s, na) ==
    [x \in {y \in Range(s) : y \notin na} |->
        Cardinality({i \in DOMAIN s : s[i] = x})]

\* df.<c>.value_counts() of a scalar column: NaN cells are dropped.
column_value_counts(df, c) ==
    IF c \notin df.columns THEN Raise("AttributeError")
    ELSE LET present == SelectSeq(df.rows, LAMBDA r : c \in DOMAIN r)
         IN Ok(value_counts([i \in DOMAIN present |-> present[i][c]], {}))

RECURSIVE unique(_)
\* the distinct elements of s, in the order of their first occurrence
unique(s) ==
    IF s = <<>> THEN <<>>
    ELSE LET front == SubSeq(s, 1, Len(s) - 1)
             last == s[Len(s)]
         IN IF \E i \in DOMAIN front : front[i] = last
            THEN unique(front) ELSE Append(unique(front), last)

\* An insertion-ordered dict: a sequence of [key, val] with distinct keys.
\* d[k] = v
setitem(d, k, v) ==
    IF \E i \in DOMAIN d : d[i].key = k
    THEN [i \in DOMAIN d |-> IF d[i].key = k THEN [key |-> k, val |-> v] ELSE d[i]]
    ELSE Append(d, [key |-> k, val |-> v])

RECURSIVE dict_zip(_, _)
\* dict(zip(ks, vs))
dict_zip(ks, vs) ==
    IF ks = <<>> \/ vs = <<>> THEN <<>>
    ELSE LET n == IF Len(ks) < Len(vs) THEN Len(ks) ELSE Len(vs)
         IN setitem(dict_zip(SubSeq(ks, 1, n - 1), SubSeq(vs, 1, n - 1)), ks[n], vs[n])

\* itertoolz.frequencies: element -> number of occurrences, insertion-ordered
frequencies(s) ==
    LET u == unique(s)
    IN [i \in DOMAIN u |->
          [key |-> u[i], val |-> Cardinality({j \in DOMAIN s : s[j] = u[i]})]]

RECURSIVE insert_sorted(_, _)
\* x put into the ascending sequence s of [k, v], after the elements not above it
insert_sorted(s, x) ==
    IF s = <<>> THEN <<x>>
    ELSE IF s[Len(s)].k <= x.k THEN Append(s, x)
    ELSE Append(insert_sorted(SubSeq(s, 1, Len(s) - 1), x), s[Len(s)])

RECURSIVE sort_asc(_)
\* the sequence s of [k, v] sorted ascending by k, ties in their original order
sort_asc(s) ==
    IF s = <<>> THEN <<>>
    ELSE insert_sorted(sort_asc(SubSeq(s, 1, Len(s) - 1)), s[Len(s)])

\* a running total that leaves out the row itself
cumsum_exclusive(s) == [i \in DOMAIN s |-> SumSeq(SubSeq(s, 1, i - 1))]

\* Series.cumsum()
cumsum(s) == [i \in DOMAIN s |-> SumSeq(SubSeq(s, 1, i))]

-----------------------------------------------------------------------------
(* The aggregators of src/app.py.  Each takes the DataFrame and yields the  *)
(* data it hands to the chart, or the exception it raises.                  *)

\* dz.valmap(lambda d: d.get(flag), d).values()
flag_values(d, flag) == [i \in 1..Len(keys(d)) |-> get(d[keys(d)[i]], flag, None)]

\* get_user_recipe_status with the in-progress test made before, and without,
\* the completed test
get_user_recipe_status_inprogress_first(x) ==
    IF ~x.nan /\ DOMAIN x.v = {} THEN Ok("Never entered cook mode")
    ELSE IF x.nan THEN Raise("AttributeError")
    ELSE IF any(flag_values(x.v, "inprogress"))
         THEN Ok("Recipe in progress, but never completed any")
    ELSE IF any(flag_values(x.v, "cookedBefore"))
         THEN Ok("Completed at least 1 recipe")
    ELSE Ok(None)

\* get_user_recipe_status without its first test, d == {}
get_user_recipe_status_no_empty_test(x) ==
    IF x.nan THEN Raise("AttributeError")
    ELSE IF ~any(flag_values(x.v, "cookedBefore")) /\ any(flag_values(x.v, "inprogress"))
         THEN Ok("Recipe in progress, but never completed any")
    ELSE IF any(flag_values(x.v, "cookedBefore"))
         THEN Ok("Completed at least 1 recipe")
    ELSE Ok(None)

\* get_user_recipe_status(d): the label, None when no branch returns
get_user_recipe_status(x) ==
    IF ~x.nan /\ DOMAIN x.v = {} THEN Ok("Never entered cook mode")
    ELSE IF x.nan THEN Raise("AttributeError")
    ELSE IF ~any(flag_values(x.v, "cookedBefore")) /\ any(flag_values(x.v, "inprogress"))
         THEN Ok("Recipe in progress, but never completed any")
    ELSE IF any(flag_values(x.v, "cookedBefore"))
         THEN Ok("Completed at least 1 recipe")
    ELSE Ok(None)

\* the Series df.<c>, a NaN cell where the row has no such key
column(df, c) == [i \in DOMAIN df.rows |-> cell(df.rows[i], c)]

\* df.<c>.apply(f), r being f on every cell of the column: the results, or the
\* first exception raised
apply(df, c, r) ==
    IF c \notin df.columns THEN Raise("AttributeError")
    ELSE IF \E i \in DOMAIN r : r[i].status = "error"
         THEN r[CHOOSE i \in DOMAIN r : r[i].status = "error"
                  /\ \A j \in 1..(i - 1) : r[j].status = "ok"]
    ELSE Ok([i \in DOMAIN r |-> r[i].value])

plot_cooked_or_viewed_recipes(df) ==
    LET statuses == apply(df, "recipes",
                        [i \in DOMAIN df.rows |-> get_user_recipe_status(column(df, "recipes")[i])])
    IN IF statuses.status = "error" THEN statuses
       ELSE Ok(value_counts(statuses.value, {None}))

\* count_recipes(d)
count_recipes(x) ==
    IF ~x.nan /\ DOMAIN x.v = {} THEN Ok(0)
    ELSE IF x.nan THEN Raise("AttributeError")
    ELSE LET cooked == [i \in 1..Len(keys(x.v)) |->
                           get(x.v[keys(x.v)[i]], "cookedBefore", "False")]
         IN Ok(SumSeq([i \in DOMAIN cooked |-> IF truthy(cooked[i]) THEN 1 ELSE 0]))

\* Series.drop(label, axis=0)
drop(counts, label) ==
    IF label \notin DOMAIN counts THEN Raise("KeyError")
    ELSE Ok(without(counts, {label}))

plot_num_completed_recipes(df) ==
    LET per_user == apply(df, "recipes",
                        [i \in DOMAIN df.rows |-> count_recipes(column(df, "recipes")[i])])
    IN IF per_user.status = "error" THEN per_user
       ELSE drop(value_counts(per_user.value, {}), 0)

\* get_user_skill_status(d)
get_user_skill_status(x) ==
    IF ~x.nan /\ DOMAIN x.v = {} THEN Ok("Never saw a skill")
    ELSE Ok("Saw at least 1 skill")

plot_cooked_or_viewed_skills(df) ==
    LET statuses == apply(df, "skills",
                        [i \in DOMAIN df.rows |-> get_user_skill_status(column(df, "skills")[i])])
    IN IF statuses.status = "error" THEN statuses
       ELSE Ok(value_counts(statuses.value, {None}))

\* lambda d: list(dz.valmap(lambda d: d.get("score"), d).values())
skill_scores(x) ==
    IF x.nan THEN Raise("AttributeError") ELSE Ok(flag_values(x.v, "score"))

\* plot_skill_hist normalising by the number of users
plot_skill_hist_per_user(df) ==
    LET skill_levels == apply(df, "skills",
                        [i \in DOMAIN df.rows |-> skill_scores(column(df, "skills")[i])])
    IN IF skill_levels.status = "error" THEN skill_levels
       ELSE LET skill_counts == frequencies(Concat(skill_levels.value))
                num_skills == Len(df.rows)
            IN Ok([i \in DOMAIN skill_counts |->
                     [key |-> skill_counts[i].key,
                      val |-> [num |-> skill_counts[i].val, den |-> num_skills]]])

\* plot_skill_hist: score -> proportion, a proportion v / num_skills kept as
\* the pair [num |-> v, den |-> num_skills]
plot_skill_hist(df) ==
    LET skill_levels == apply(df, "skills",
                        [i \in DOMAIN df.rows |-> skill_scores(column(df, "skills")[i])])
    IN IF skill_levels.status = "error" THEN skill_levels
       ELSE LET skill_counts == frequencies(Concat(skill_levels.value))
                num_skills == SumSeq([i \in DOMAIN skill_counts |-> skill_counts[i].val])
            IN Ok([i \in DOMAIN skill_counts |->
                     [key |-> skill_counts[i].key,
                      val |-> [num |-> skill_counts[i].val, den |-> num_skills]]])

plot_onboarding(df) == column_value_counts(df, "onboarded")

plot_levels(df) == column_value_counts(df, "level")

\* (~df.providedFeedback.isnull()).value_counts()
plot_feedback(df) ==
    IF "providedFeedback" \notin df.columns THEN Raise("AttributeError")
    ELSE Ok(value_counts([i \in DOMAIN df.rows |->
                IF "providedFeedback" \in DOMAIN df.rows[i] THEN "True" ELSE "False"], {}))

\* plot_signups: the rows by ascending creationDate (NaN last), each with the
\* running total of counter
plot_signups(df) ==
    IF "creationDate" \notin df.columns THEN Raise("KeyError")
    ELSE LET dated == SelectSeq(df.rows, LAMBDA r : "creationDate" \in DOMAIN r)
             undated == SelectSeq(df.rows, LAMBDA r : "creationDate" \notin DOMAIN r)
             sorted == sort_asc([i \in DOMAIN dated |->
                                   [k |-> dated[i].creationDate, v |-> 1]])
             index == [i \in DOMAIN sorted |-> [creationDate |-> sorted[i].k]]
                          \o [i \in DOMAIN undated |-> EmptyDict]
             counter == cumsum([i \in DOMAIN sorted |-> sorted[i].v]
                                   \o [i \in DOMAIN undated |-> 1])
         IN Ok([i \in DOMAIN index |-> index[i] @@ [counter |-> counter[i]]])

\* db.collection("fl_content").document(id).get().get("name")
lookup_name(db, id) ==
    IF id \notin DOMAIN db THEN Ok(None)
    ELSE IF "name" \notin DOMAIN db[id] THEN Raise("KeyError")
    ELSE Ok(db[id].name)

\* lambda d: list(d.keys())
key_list(x) == IF x.nan THEN Raise("AttributeError") ELSE Ok(keys(x.v))

\* most_popular_recipes / most_popular_skills on column c: the rows
\* [name, count] by ascending count, and the ids looked up in the catalog
most_popular(df, db, c) ==
    LET ids == apply(df, c, [i \in DOMAIN df.rows |-> key_list(column(df, c)[i])])
    IN IF ids.status = "error" THEN ids
       ELSE LET counts == frequencies(Concat(ids.value))
                looked == [i \in DOMAIN counts |-> lookup_name(db, counts[i].key)]
            IN IF \E i \in DOMAIN looked : looked[i].status = "error"
               THEN Raise("KeyError")
               ELSE LET named == dict_zip([i \in DOMAIN looked |-> looked[i].value],
                                          [i \in DOMAIN counts |-> counts[i].val])
                        sorted == sort_asc([i \in DOMAIN named |->
                                              [k |-> named[i].val, v |-> named[i].key]])
                    IN Ok([rows |-> [i \in DOMAIN sorted |->
                                        [name |-> sorted[i].v, count |-> sorted[i].k]],
                           reads |-> [i \in DOMAIN counts |-> counts[i].key]])

most_popular_recipes(df, db) == most_popular(df, db, "recipes")

most_popular_skills(df, db) == most_popular(df, db, "skills")

-----------------------------------------------------------------------------
(* Fetching and reshaping *)

\* a list append in place of the keyed assignment
store_doc_append(ud, doc) == Append(ud, doc)

\* user_data[doc["uid"]] = doc, user_data kept as the sequence of its values
\* in insertion order
store_doc(ud, doc) ==
    IF \E i \in DOMAIN ud : ud[i].uid = doc.uid
    THEN [i \in DOMAIN ud |-> IF ud[i].uid = doc.uid THEN doc ELSE ud[i]]
    ELSE Append(ud, doc)

\* the for loop over users_ref.stream() ends when the stream is exhausted
stream_exhausted(s, n) == n = Len(s)

PII == {"name", "email", "uid"}

\* anonymize_to_df: one row per key of user_data, the documents' keys as
\* columns, the identifying columns dropped
anonymize_to_df(ud) ==
    LET columns == UNION {DOMAIN ud[i] : i \in DOMAIN ud}
    IN IF ~(PII \subseteq columns) THEN Raise("KeyError")
       ELSE Ok([columns |-> columns \ PII,
                rows |-> [i \in DOMAIN ud |-> without(ud[i], PII)]])

-----------------------------------------------------------------------------
(* Inputs *)

SeqsUpTo(S, n) == UNION {[1..k -> S] : k \in 0..n}

Uids == {"u1", "u2"}

\* A user document with every field: a user who just signed up, or one who
\* cooked a recipe, saw a skill and sent feedback.
UserDoc(u, kind) ==
    IF kind = "new"
    THEN [uid |-> u, name |-> "n", email |-> "e", onboarded |-> "False", level |-> 1,
          creationDate |-> 1, recipes |-> EmptyDict, skills |-> EmptyDict]
    ELSE [uid |-> u, name |-> "n", email |-> "e", onboarded |-> "True", level |-> 2,
          creationDate |-> 2, providedFeedback |-> "thanks",
          recipes |-> [r \in {"r1"} |-> [cookedBefore |-> "True"]],
          skills |-> [k \in {"s1"} |-> [score |-> "1"]]]

DocKeys == DOMAIN UserDoc("u1", "active")

\* The documents of a users collection: complete ones, and ones lacking a field.
Docs ==
    {UserDoc(u, kind) : u \in Uids, kind \in {"new", "active"}}
        \cup {without(UserDoc("u1", "active"), {k}) : k \in DocKeys}

NoFile == [exists |-> FALSE, content |-> <<>>]

OldSnapshot == [exists |-> TRUE, content |-> <<UserDoc("u2", "active")>>]

Names == {"Soup", "Stew"}

RecipeIds == {"r1", "r2"}

SkillIds == {"s1", "s2"}

\* fl_content, every content id resolving to a name
Catalogs == [RecipeIds \cup SkillIds -> {[name |-> n] : n \in Names}]

DefaultCatalog == [id \in RecipeIds \cup SkillIds |->
                     [name |-> IF id \in RecipeIds THEN "Soup" ELSE "Stew"]]

\* the dicts with keys among ks and values in vs
Dicts(ks, vs) == UNION {[d -> vs] : d \in SUBSET ks}

\* per-recipe progress documents
Progress ==
    {EmptyDict, [inprogress |-> "True"], [cookedBefore |-> "True"],
     [cookedBefore |-> "True", inprogress |-> "True"],
     [cookedBefore |-> "False", inprogress |-> "True"],
     [cookedBefore |-> "False", inprogress |-> "False"]}

\* per-skill documents
SkillDocs == {EmptyDict, [score |-> "1"], [score |-> "2"]}

\* the user tables of 1..MaxUsers rows drawn from rowset; the columns are the
\* keys some row has
Tables(rowset) ==
    {[columns |-> UNION {DOMAIN r[i] : i \in DOMAIN r}, rows |-> r] :
        r \in SeqsUpTo(rowset, MaxUsers) \ {<<>>}}

NoData == [columns |-> {}, rows |-> <<>>]

-----------------------------------------------------------------------------
(* The script run *)

\* The page is shown and the button not yet pressed.  dev is the module-level
\* flag (False as shipped, True while developing); user_data.hkl is absent or
\* left by an earlier dev-mode pull.
Init ==
    /\ pc = "idle"
    /\ dev \in BOOLEAN
    /\ file \in {NoFile, OldSnapshot}
    /\ fileAtPress = file
    /\ stream = <<>>
    /\ pos = 0
    /\ user_data = <<>>
    /\ data = NoData
    /\ catalog = DefaultCatalog
    /\ charts = <<>>

\* The exception raised in the call `at` is shown to the operator and the run
\* ends.
Crash(at, e) ==
    /\ pc' = "error"
    /\ charts' = Append(charts, [chart |-> "exception", value |-> [at |-> at, type |-> e]])

\* st.button("Pull Latest Data") pressed: the script runs again from the top,
\* nothing of the earlier run is kept but the file; init_fb_connection.
PressButton ==
    /\ pc \in {"idle", "done", "error"}
    /\ stream' = <<>>
    /\ pc' = "pull"
    /\ pos' = 0
    /\ data' = NoData
    /\ charts' = <<>>
    /\ user_data' = <<>>
    /\ fileAtPress' = file
    /\ UNCHANGED <<dev, file, catalog>>

\* pull_latest_data up to the loop: the saved data in dev mode, else a new dict
\* and users_ref.stream(), the users collection holding the documents s
PullStart ==
    /\ pc = "pull"
    /\ IF dev /\ file.exists
       THEN /\ user_data' = file.content
            /\ pc' = "anonymize"
            /\ UNCHANGED stream
       ELSE /\ user_data' = <<>>
            /\ \E s \in SeqsUpTo(Docs, MaxStream) : stream' = s
            /\ pc' = "stream"
    /\ UNCHANGED <<dev, file, fileAtPress, pos, data, catalog, charts>>

\* the loop with the dev-mode dump inside its body
StreamDoc_dump_in_loop ==
    /\ pc = "stream"
    /\ pos < Len(stream)
    /\ LET doc == stream[pos + 1]
       IN IF "uid" \notin DOMAIN doc
          THEN /\ Crash("pull_latest_data", "KeyError")
               /\ UNCHANGED <<user_data, pos, file>>
          ELSE /\ user_data' = store_doc(user_data, doc)
               /\ pos' = pos + 1
               /\ file' = IF dev THEN [exists |-> TRUE, content |-> user_data'] ELSE file
               /\ UNCHANGED <<pc, charts>>
    /\ UNCHANGED <<dev, fileAtPress, stream, data, catalog>>

\* one iteration of the loop over users_ref.stream()
StreamDoc ==
    /\ pc = "stream"
    /\ ~stream_exhausted(stream, pos)
    /\ LET doc == stream[pos + 1]
       IN IF "uid" \notin DOMAIN doc
          THEN /\ Crash("pull_latest_data", "KeyError")
               /\ UNCHANGED <<user_data, pos>>
          ELSE /\ user_data' = store_doc(user_data, doc)
               /\ pos' = pos + 1
               /\ UNCHANGED <<pc, charts>>
    /\ UNCHANGED <<dev, file, fileAtPress, stream, data, catalog>>

\* the remote stream fails, before, between or after documents
StreamFail ==
    /\ pc = "stream"
    /\ Crash("pull_latest_data", "ServiceUnavailable")
    /\ UNCHANGED <<dev, file, fileAtPress, stream, pos, user_data, data, catalog>>

\* the loop is over: the dump in dev mode, and the return
StreamEnd ==
    /\ pc = "stream"
    /\ stream_exhausted(stream, pos)
    /\ file' = IF dev THEN [exists |-> TRUE, content |-> user_data] ELSE file
    /\ pc' = "anonymize"
    /\ UNCHANGED <<dev, fileAtPress, stream, pos, user_data, data, catalog, charts>>

\* data = anonymize_to_df(user_data) and the number of user records
Anonymize ==
    /\ pc = "anonymize"
    /\ LET r == anonymize_to_df(user_data)
       IN IF r.status = "error"
          THEN /\ Crash("anonymize_to_df", r.value)
               /\ UNCHANGED data
          ELSE /\ data' = r.value
               /\ charts' = Append(charts, [chart |-> "records", value |-> Len(r.value.rows)])
               /\ pc' = "plot_signups"
    /\ UNCHANGED <<dev, file, fileAtPress, stream, pos, user_data, catalog>>

\* One plot call: its chart is rendered and the run goes on, or it raises.
Plot(label, r, next) ==
    /\ pc = label
    /\ IF r.status = "error"
       THEN Crash(label, r.value)
       ELSE /\ charts' = Append(charts, [chart |-> label, value |-> r.value])
            /\ pc' = next
    /\ UNCHANGED <<dev, file, fileAtPress, stream, pos, user_data, data, catalog>>

PlotSignups == Plot("plot_signups", plot_signups(data), "plot_onboarding")

PlotOnboarding == Plot("plot_onboarding", plot_onboarding(data), "plot_feedback")

PlotFeedback == Plot("plot_feedback", plot_feedback(data), "plot_levels")

PlotLevels == Plot("plot_levels", plot_levels(data), "plot_cooked_or_viewed_recipes")

PlotCookedOrViewedRecipes ==
    Plot("plot_cooked_or_viewed_recipes", plot_cooked_or_viewed_recipes(data),
         "plot_num_completed_recipes")

PlotNumCompletedRecipes ==
    Plot("plot_num_completed_recipes", plot_num_completed_recipes(data),
         "plot_cooked_or_viewed_skills")

PlotCookedOrViewedSkills ==
    Plot("plot_cooked_or_viewed_skills", plot_cooked_or_viewed_skills(data),
         "plot_skill_hist")

PlotSkillHist == Plot("plot_skill_hist", plot_skill_hist(data), "most_popular_recipes")

MostPopularRecipes ==
    Plot("most_popular_recipes", most_popular_recipes(data, catalog), "most_popular_skills")

MostPopularSkills ==
    Plot("most_popular_skills", most_popular_skills(data, catalog), "done")

Next ==
    \/ PressButton
    \/ PullStart
    \/ StreamDoc
    \/ StreamFail
    \/ StreamEnd
    \/ Anonymize
    \/ PlotSignups
    \/ PlotOnboarding
    \/ PlotFeedback
    \/ PlotLevels
    \/ PlotCookedOrViewedRecipes
    \/ PlotNumCompletedRecipes
    \/ PlotCookedOrViewedSkills
    \/ PlotSkillHist
    \/ MostPopularRecipes
    \/ MostPopularSkills

Spec == Init /\ [][Next]_vars

-----------------------------------------------------------------------------
(* The aggregators on their own: each applied to a user table drawn from a  *)
(* bounded set, the run starting at the aggregator's call.                  *)

InitTable(labels, tables, catalogs) ==
    /\ pc \in labels
    /\ data \in tables
    /\ catalog \in catalogs
    /\ dev = FALSE
    /\ file = NoFile
    /\ fileAtPress = NoFile
    /\ stream = <<>>
    /\ pos = 0
    /\ user_data = <<>>
    /\ charts = <<>>

\* the recipe aggregators, on tables whose recipes column varies
InitRecipes ==
    InitTable({"plot_cooked_or_viewed_recipes", "plot_num_completed_recipes"},
              Tables({[recipes |-> m] : m \in Dicts(RecipeIds, Progress)}),
              {DefaultCatalog})

NextRecipes == PlotCookedOrViewedRecipes \/ PlotNumCompletedRecipes

SpecRecipes == InitRecipes /\ [][NextRecipes]_vars

\* the skill aggregators, on tables whose skills column varies
InitSkills ==
    InitTable({"plot_cooked_or_viewed_skills", "plot_skill_hist"},
              Tables({[skills |-> m] : m \in Dicts(SkillIds, SkillDocs)}),
              {DefaultCatalog})

NextSkills == PlotCookedOrViewedSkills \/ PlotSkillHist

SpecSkills == InitSkills /\ [][NextSkills]_vars

\* the aggregators of a scalar column, on tables whose scalar columns vary
\* and may be NaN
ScalarValues == {1, 2}

ScalarRows ==
    {r \in Dicts({"creationDate", "level", "onboarded", "providedFeedback"}, ScalarValues) :
        \A k \in DOMAIN r \cap {"onboarded", "providedFeedback"} : r[k] = 1}

InitColumns ==
    InitTable({"plot_signups", "plot_onboarding", "plot_feedback", "plot_levels"},
              Tables(ScalarRows), {DefaultCatalog})

NextColumns == PlotSignups \/ PlotOnboarding \/ PlotFeedback \/ PlotLevels

SpecColumns == InitColumns /\ [][NextColumns]_vars

\* the popularity aggregators, on tables whose recipe and skill ids vary and
\* on every catalog
InitPopular ==
    InitTable({"most_popular_recipes", "most_popular_skills"},
              Tables({[recipes |-> r, skills |-> k] :
                         r \in Dicts(RecipeIds, {EmptyDict}),
                         k \in Dicts(SkillIds, {[score |-> "1"]})}),
              Catalogs)

NextPopular == MostPopularRecipes \/ MostPopularSkills

SpecPopular == InitPopular /\ [][NextPopular]_vars

-----------------------------------------------------------------------------
(* Properties *)

Rendered(label) == \E i \in DOMAIN charts : charts[i].chart = label

ChartOf(label) == charts[CHOOSE i \in DOMAIN charts : charts[i].chart = label].value

Raised(at) ==
    \E i \in DOMAIN charts : charts[i].chart = "exception" /\ charts[i].value.at = at

RECURSIVE SumOver(_, _)
\* the sum of f over the set S
SumOver(f, S) ==
    IF S = {} THEN 0
    ELSE LET x == CHOOSE y \in S : TRUE IN f[x] + SumOver(f, S \ {x})

CountOf(vc, label) == IF label \in DOMAIN vc THEN vc[label] ELSE 0

Never == "Never entered cook mode"
InProgress == "Recipe in progress, but never completed any"
Completed == "Completed at least 1 recipe"

\* the recipes of user i marked completed
CookedBy(i) ==
    {r \in DOMAIN data.rows[i].recipes :
        get(data.rows[i].recipes[r], "cookedBefore", "False") = "True"}

StatusOf(i) == get_user_recipe_status(cell(data.rows[i], "recipes"))

\* C1: the three recipe-engagement buckets partition the users: every bucket
\* is one of the three categories and the bucket counts sum to the number of
\* rows of the table.
C1_ThreeWayPartition ==
    Rendered("plot_cooked_or_viewed_recipes") =>
        LET vc == ChartOf("plot_cooked_or_viewed_recipes")
        IN /\ DOMAIN vc \subseteq {Never, InProgress, Completed}
           /\ SumOver(vc, DOMAIN vc) = Len(data.rows)

\* C2: a user with at least one recipe marked completed is classified
\* "Completed at least 1 recipe", whatever the in-progress flags, and is
\* counted in that bucket and in no other.
C2_CompletedWins ==
    Rendered("plot_cooked_or_viewed_recipes") =>
        LET vc == ChartOf("plot_cooked_or_viewed_recipes")
            done == {i \in DOMAIN data.rows : CookedBy(i) # {}}
        IN /\ \A i \in done : StatusOf(i) = Ok(Completed)
           /\ CountOf(vc, Completed) >= Cardinality(done)
           /\ CountOf(vc, InProgress) + CountOf(vc, Never)
                  <= Len(data.rows) - Cardinality(done)

C2_Witness ==
    /\ Rendered("plot_cooked_or_viewed_recipes")
    /\ \E i \in DOMAIN data.rows :
          /\ CookedBy(i) # {}
          /\ \E r \in DOMAIN data.rows[i].recipes :
                get(data.rows[i].recipes[r], "inprogress", None) = "True"

\* C3: a user with an empty recipes mapping is classified "Never entered cook
\* mode" and is counted in that bucket of the chart.
C3_EmptyIsNever ==
    Rendered("plot_cooked_or_viewed_recipes") =>
        LET vc == ChartOf("plot_cooked_or_viewed_recipes")
            empty == {i \in DOMAIN data.rows : DOMAIN data.rows[i].recipes = {}}
        IN /\ \A i \in empty : StatusOf(i) = Ok(Never)
           /\ CountOf(vc, Never) >= Cardinality(empty)

C3_Witness ==
    /\ Rendered("plot_cooked_or_viewed_recipes")
    /\ \E i \in DOMAIN data.rows : DOMAIN data.rows[i].recipes = {}
    /\ \E i \in DOMAIN data.rows : DOMAIN data.rows[i].recipes # {}

\* C4: for every table plot_num_completed_recipes produces the histogram whose
\* buckets are the k >= 1 such that some user completed exactly k recipes,
\* each holding the number of such users, and no bucket for 0.
C4_CompletedHistogram ==
    (Rendered("plot_num_completed_recipes") \/ Raised("plot_num_completed_recipes")) =>
        /\ Rendered("plot_num_completed_recipes")
        /\ LET h == ChartOf("plot_num_completed_recipes")
               n == [i \in DOMAIN data.rows |-> Cardinality(CookedBy(i))]
           IN /\ DOMAIN h = Range(n) \ {0}
              /\ \A k \in DOMAIN h : h[k] = Cardinality({i \in DOMAIN n : n[i] = k})

\* C5: the cumulative signup count rises by exactly 1 per row along the rows
\* sorted ascending by creation timestamp, and ends at the number of rows of
\* the table, also when users share a timestamp.
C5_CumulativeSignups ==
    Rendered("plot_signups") =>
        LET c == ChartOf("plot_signups")
            dated == {i \in DOMAIN c : "creationDate" \in DOMAIN c[i]}
        IN /\ Len(c) = Len(data.rows)
           /\ \A i \in DOMAIN c : c[i].counter = i
           /\ c[Len(c)].counter = Len(data.rows)
           /\ \A i, j \in dated : i < j => c[i].creationDate <= c[j].creationDate
           /\ \A d \in ScalarValues :
                 Cardinality({i \in dated : c[i].creationDate = d})
                     = Cardinality({i \in DOMAIN data.rows :
                                       get(data.rows[i], "creationDate", 0) = d})

C5_Witness ==
    /\ Rendered("plot_signups")
    /\ \E i, j \in DOMAIN data.rows :
          /\ i < j
          /\ "creationDate" \in DOMAIN data.rows[i] \cap DOMAIN data.rows[j]
          /\ data.rows[i].creationDate = data.rows[j].creationDate

\* C6: a pull whose stream fails leaves user_data.hkl as it was before the
\* pull; the file is written only once every document of the stream has been
\* read, and then holds a document for every identifier of the stream.
C6_FailedFetchKeepsSnapshot ==
    /\ Raised("pull_latest_data") => file = fileAtPress
    /\ file # fileAtPress =>
          /\ pos = Len(stream)
          /\ \A i \in DOMAIN stream :
                \E j \in DOMAIN file.content : file.content[j] = user_data[j]
                                                  /\ file.content[j].uid = stream[i].uid

C6_Witness ==
    /\ Raised("pull_latest_data")
    /\ dev
    /\ pos >= 1
    /\ pos < Len(stream)

LacksField(doc) == DocKeys \ DOMAIN doc # {}

\* C7: a fetched collection in which a user document lacks a field is handled
\* without an error: the run raises no exception of its own (the remote
\* failure, and the KeyError plot_num_completed_recipes raises on a table
\* without a zero count, are not errors about an absent field).
C7_FieldAbsenceTolerated ==
    (\E d \in Range(stream) \cup Range(user_data) : LacksField(d)) =>
        \A i \in DOMAIN charts :
            charts[i].chart = "exception" =>
                \/ charts[i].value.type = "ServiceUnavailable"
                \/ charts[i].value = [at |-> "plot_num_completed_recipes", type |-> "KeyError"]

RECURSIVE SumOfProportions(_)
\* the sum of the proportions of the histogram h, as a fraction
SumOfProportions(h) ==
    IF h = <<>> THEN [num |-> 0, den |-> 1]
    ELSE LET rest == SumOfProportions(Tail(h))
         IN [num |-> h[1].val.num * rest.den + rest.num * h[1].val.den,
             den |-> h[1].val.den * rest.den]

IsOne(q) == q.den # 0 /\ q.num = q.den

\* the (user, skill) pairs of the table
SkillPairs == {<<i, k>> \in (DOMAIN data.rows) \X SkillIds : k \in DOMAIN data.rows[i].skills}

ScoreOf(p) == get(data.rows[p[1]].skills[p[2]], "score", None)

\* C8 (as claimed): the proportions of the skill-level histogram sum to 1
\* across all buckets.
C8_ProportionsSumToOne ==
    Rendered("plot_skill_hist") => IsOne(SumOfProportions(ChartOf("plot_skill_hist")))

\* C8 (amended): every (user, skill) score is counted in exactly one bucket,
\* each bucket's proportion is its frequency over the total number of
\* (user, skill) pairs, and the proportions sum to 1 when there is at least one
\* pair; with no pair the histogram has no bucket.
C8_ProportionsSumToOneWhenAnySkill ==
    Rendered("plot_skill_hist") =>
        LET h == ChartOf("plot_skill_hist")
        IN /\ \A i, j \in DOMAIN h : h[i].key = h[j].key => i = j
           /\ {h[i].key : i \in DOMAIN h} = {ScoreOf(p) : p \in SkillPairs}
           /\ \A i \in DOMAIN h :
                 /\ h[i].val.num = Cardinality({p \in SkillPairs : ScoreOf(p) = h[i].key})
                 /\ h[i].val.den = Cardinality(SkillPairs)
           /\ SumSeq([i \in DOMAIN h |-> h[i].val.num]) = Cardinality(SkillPairs)
           /\ SkillPairs # {} => IsOne(SumOfProportions(h))
           /\ SkillPairs = {} => h = <<>>

C8_Witness ==
    /\ Rendered("plot_skill_hist")
    /\ Len(data.rows) = 2
    /\ Cardinality(SkillPairs) >= 3
    /\ Len(ChartOf("plot_skill_hist")) >= 2

\* the pull streamed the collection (it did not load the saved data)
Streamed == ~(dev /\ fileAtPress.exists)

\* C9: after a fetch the user table has exactly one row per distinct user
\* identifier of the stream, and every row is the anonymized form of a
\* document of that stream, no two rows coming from the same identifier.
C9_OneRowPerUser ==
    (data # NoData /\ Streamed) =>
        /\ Len(data.rows) = Cardinality({stream[i].uid : i \in DOMAIN stream})
        /\ Len(data.rows) = Len(user_data)
        /\ \A j \in DOMAIN data.rows :
              \E i \in DOMAIN stream :
                  /\ user_data[j] = stream[i]
                  /\ data.rows[j] = without(stream[i], PII)
        /\ \A j, k \in DOMAIN user_data :
              user_data[j].uid = user_data[k].uid => j = k

C9_Witness ==
    /\ data # NoData
    /\ Streamed
    /\ Len(stream) = 2
    /\ stream[1].uid = stream[2].uid
    /\ stream[1] # stream[2]

\* the recipe ids of the table, and the users holding each
RecipeIdsSeen == UNION {DOMAIN data.rows[i].recipes : i \in DOMAIN data.rows}

UsersOf(id) == {i \in DOMAIN data.rows : id \in DOMAIN data.rows[i].recipes}

\* C10: most_popular_recipes keeps the frequency table through name
\* resolution: one output row per distinct recipe id, holding the id's name and
\* the number of users with that id, one catalog lookup per distinct id, the
\* counts summing to the number of (user, recipe id) pairs, rows in ascending
\* order of count.
C10_NamesPreserveFrequencies ==
    Rendered("most_popular_recipes") =>
        LET out == ChartOf("most_popular_recipes")
        IN /\ Len(out.reads) = Cardinality(RecipeIdsSeen)
           /\ Range(out.reads) = RecipeIdsSeen
           /\ Len(out.rows) = Cardinality(RecipeIdsSeen)
           /\ \A id \in RecipeIdsSeen :
                 \E j \in DOMAIN out.rows :
                     /\ out.rows[j].name = catalog[id].name
                     /\ out.rows[j].count = Cardinality(UsersOf(id))
           /\ SumSeq([j \in DOMAIN out.rows |-> out.rows[j].count])
                 = SumSeq([i \in DOMAIN data.rows |-> Cardinality(DOMAIN data.rows[i].recipes)])
           /\ \A j, k \in DOMAIN out.rows : j < k => out.rows[j].count <= out.rows[k].count

=============================================================================
